---- MODULE Spec2Model ----
(***************************************************************************)
(* State-machine model of the files_manager backend: the document store    *)
(* connector (utils/db), the session store client (utils/redis), the       *)
(* request handlers of UsersController and AuthController, and the two     *)
(* Bull queue consumers of worker.js.                                      *)
(*                                                                         *)
(* One action is one run of a handler between two awaits: the effect of    *)
(* the awaited store operation together with the continuation up to the    *)
(* next await (Node runs a continuation without interleaving).             *)
(***************************************************************************)
EXTENDS Naturals, Sequences, FiniteSets

(***************************************************************************)
(* Bounds of the model.                                                    *)
(***************************************************************************)
NReq == 2          \* request slots: handlers that can be in flight at once
MaxReqs == 3       \* requests started in one behaviour
MaxUsers == 3      \* user records (the pre-registered one included)
MaxTok == 2        \* tokens uuidv4 hands out in one behaviour
MaxTicks == 2      \* clock steps in one behaviour
MaxLost == 1       \* losses of the session store connection
MaxExtJobs == 1    \* jobs put on a queue by a producer outside this model
MaxFileJobs == 2   \* jobs on fileQueue
MaxRedeliver == 1  \* deliveries of a job that was delivered before
MaxDelivered == 2  \* jobs delivered to the consumers while only they run

(***************************************************************************)
(* Program constants.                                                      *)
(***************************************************************************)
hoursForExpiration == 24
SecondsPerHour == 3600
Widths == <<500, 250, 100>>

TTL == hoursForExpiration * SecondsPerHour
TickStep == TTL \div 2

(***************************************************************************)
(* Strings are sequences of one-character strings; "" (and a missing       *)
(* field, which the code only ever tests for truthiness) is <<>>.          *)
(***************************************************************************)
Emails == {<<>>, <<"a">>, <<"b">>}
Passwords == {<<>>, <<"p">>, <<"q">>, <<"p", ":", "q">>}

Truthy(s) == s # <<>>

\* sha1(password): an injective digest, never the plaintext itself
Sha1(p) == <<"sha1">> \o p

\* ObjectId.toString() and ObjectId(string): an id n and its 24-hex-digit text
ToString(n) == [shape |-> "hex", n |-> n]
NullStr == [shape |-> "null", n |-> 0]
EmptyStr == [shape |-> "empty", n |-> 0]
BadStr == [shape |-> "bad", n |-> 0]
ObjectId(s) == IF s.shape = "hex" THEN s.n ELSE 0
TruthyId(s) == s.shape \in {"hex", "bad"}

VARIABLES
    now,        \* wall clock, in seconds
    db,         \* server process DBClient: "connecting" (this.db undefined), "ready",
                \* "failed" (this.db = false), "lost" (this.db set, the connection gone)
    wdb,        \* worker process DBClient, same states
    users,      \* users collection: sequence of [_id, email, password] in insertion order
    reqs,       \* request slot -> the handler run in it
    started,    \* number of requests started so far
    jobs,       \* Bull jobs of both queues, in enqueue order
    rstate,     \* redis client connection: "offline", "ready", "closed"
    cmdQ,       \* redis commands sent (or queued offline) and not yet executed
    sess,       \* redis keyspace: token -> [val, exp] or NoKey
    nextTok,    \* number of tokens uuidv4 has handed out
    lost,       \* number of connection losses so far
    issued,     \* history: sign-ins answered 200, [tok, uid, at]
    revoked,    \* history: tokens whose sign-out was answered 204
    artifacts,  \* thumbnail files written: <<localPath, width>>
    welcomes    \* welcome messages logged, in order

vars == <<now, db, wdb, users, reqs, started, jobs, rstate, cmdQ, sess, nextTok,
          lost, issued, revoked, artifacts, welcomes>>

Req == 1..NReq
\* a token string no sign-in ever handed out
BogusToken == MaxTok + 1

(***************************************************************************)
(* String helpers of the handlers.                                         *)
(***************************************************************************)
\* String.prototype.split(sep): the segments between the separators
RECURSIVE Split(_, _)
Split(s, sep) ==
    IF \A i \in 1..Len(s) : s[i] # sep
    THEN <<s>>
    ELSE LET i == CHOOSE k \in 1..Len(s) :
                      s[k] = sep /\ \A m \in 1..(k - 1) : s[m] # sep
         IN <<SubSeq(s, 1, i - 1)>> \o Split(SubSeq(s, i + 1, Len(s)), sep)

\* parts[k - 1] of a JS array: undefined (falsy, <<>>) past its end
At(parts, k) == IF k <= Len(parts) THEN parts[k] ELSE <<>>

\* base64 text of a string and Buffer.from(text, 'base64').toString('utf-8')
B64Encode(s) == <<"=">> \o s
B64Decode(w) == IF w # <<>> /\ Head(w) = "=" THEN Tail(w) ELSE <<>>

\* the Authorization header a client builds for (email, password)
BasicHeader(email, password) == <<"B", " ">> \o B64Encode(email \o <<":">> \o password)
Headers == {<<>>, <<"B">>} \cup {BasicHeader(e, p) : e \in Emails, p \in Passwords}

(***************************************************************************)
(* Responses and request slots.                                            *)
(***************************************************************************)
\* a response: its status and the properties of its body (a property the
\* body does not have is "", 0, <<>> or FALSE)
NoResp == [status |-> 0, error |-> "", token |-> 0, id |-> 0, email |-> <<>>,
           password |-> <<>>, sRedis |-> FALSE, sDb |-> FALSE, nUsers |-> 0, nFiles |-> 0]
ErrorResp(st, msg) == [NoResp EXCEPT !.status = st, !.error = msg]
Unauthorized == ErrorResp(401, "Unauthorized")

\* obj[f] of a JS object, or dflt where it has no such property
Prop(obj, f, dflt) == IF f \in DOMAIN obj THEN obj[f] ELSE dflt
\* { ...a, ...b }: the properties of both, those of b winning
Spread(a, b) == [f \in DOMAIN a \cup DOMAIN b |-> IF f \in DOMAIN b THEN b[f] ELSE a[f]]
\* delete obj[f]
Delete(obj, f) == [g \in DOMAIN obj \ {f} |-> obj[g]]
\* response.status(st).send(obj) for a user object
SendUser(st, obj) ==
    [NoResp EXCEPT !.status = st, !.id = Prop(obj, "id", 0),
                   !.email = Prop(obj, "email", <<>>),
                   !.password = Prop(obj, "password", <<>>)]

IdleReq == [kind |-> "none", pc |-> "idle", email |-> <<>>, password |-> <<>>,
            hdr |-> <<>>, tok |-> 0, userId |-> NullStr, insertedId |-> 0,
            resp |-> NoResp, inserted |-> 0, afterRevoke |-> FALSE]

Ended(r) == reqs[r].pc \in {"idle", "done", "crashed"}

\* response.status(st).send(body): the handler returns
Respond(rq, resp) == [rq EXCEPT !.pc = "done", !.resp = resp]
\* an exception leaves the async handler: the route never answers
Crash(rq) == [rq EXCEPT !.pc = "crashed"]

\* a route is called while its slot is free
CanStart(r) == Ended(r) /\ started < MaxReqs

(***************************************************************************)
(* Document store connector (DBClient) and the users collection.           *)
(***************************************************************************)
\* this.db of a DBClient: undefined until the connect callback has run, then
\* the Db object or false, and never assigned again
ThisDb(d) == IF d = "connecting" THEN "undefined" ELSE IF d = "failed" THEN "false" ELSE "Db"

\* DBClient.isAlive: Boolean(this.db)
isAlive(d) == ThisDb(d) \notin {"undefined", "false"}

\* the driver has an open connection to the store
Connected(d) == d = "ready"

\* DBClient.nbUsers: countDocuments of the users collection
nbUsers == Len(users)

\* collection.findOne, given the positions m of the documents that match the
\* query: null (Found is false), or the first of them in natural order
Found(m) == m # {}
FindOne(coll, m) == coll[CHOOSE i \in m : \A k \in m : i <= k]

\* the files collection, written by the upload handler
Files == <<[_id |-> 1, userId |-> 1, localPath |-> "f1"],
           [_id |-> 2, userId |-> 2, localPath |-> "f2"]>>

FirstUser == [_id |-> 1, email |-> <<"a">>, password |-> Sha1(<<"p">>)]
SecondUser == [_id |-> 2, email |-> <<"b">>, password |-> Sha1(<<"q">>)]

\* the connect callback of the server's DBClient
DbConnect ==
    /\ db = "connecting"
    /\ \E ok \in BOOLEAN : db' = IF ok THEN "ready" ELSE "failed"
    /\ UNCHANGED <<now, wdb, users, reqs, started, jobs, rstate, cmdQ, sess,
                   nextTok, lost, issued, revoked, artifacts, welcomes>>

\* every request waiting for the store gets an error: its await throws, and
\* only the insertOne of postNew sits in a try block
AbortDb(rs) ==
    [r \in Req |->
        IF rs[r].pc \in {"findOne", "getUser", "nbUsers", "nbFiles"} THEN Crash(rs[r])
        ELSE IF rs[r].pc = "insertOne" THEN [rs[r] EXCEPT !.pc = "addEmpty"]
        ELSE rs[r]]

\* the established connection of the server's DBClient is lost; nothing
\* listens for it, and this.db keeps the Db object
DbLost ==
    /\ db = "ready"
    /\ db' = "lost"
    /\ reqs' = AbortDb(reqs)
    /\ UNCHANGED <<now, wdb, users, started, jobs, rstate, cmdQ, sess, nextTok,
                   lost, issued, revoked, artifacts, welcomes>>

(***************************************************************************)
(* AppController.getStatus and AppController.getStats                      *)
(***************************************************************************)
\* RedisClient.isAlive: this.client.connected
redisIsAlive == rstate = "ready"

\* DBClient.nbFiles: countDocuments of the files collection
nbFiles == Len(Files)

\* getStatus: answers at once with what the two isAlive() report
GetStatus(r) ==
    /\ CanStart(r)
    /\ LET status == [redis |-> redisIsAlive, db |-> isAlive(db)]
       IN reqs' = [reqs EXCEPT ![r] =
              Respond([IdleReq EXCEPT !.kind = "getStatus"],
                      [NoResp EXCEPT !.status = 200, !.sRedis = status.redis,
                                     !.sDb = status.db])]
    /\ started' = started + 1
    /\ UNCHANGED <<now, db, wdb, users, jobs, rstate, cmdQ, sess, nextTok, lost,
                   issued, revoked, artifacts, welcomes>>

\* as GetStatsStart, but without a connection the counts are reported as 0
GetStatsStartZero(r) ==
    /\ CanStart(r)
    /\ LET rq == [IdleReq EXCEPT !.kind = "getStats"]
       IN reqs' = [reqs EXCEPT ![r] =
              IF ~Connected(db) THEN Respond(rq, [NoResp EXCEPT !.status = 200])
              ELSE [rq EXCEPT !.pc = "nbUsers"]]
    /\ started' = started + 1
    /\ UNCHANGED <<now, db, wdb, users, jobs, rstate, cmdQ, sess, nextTok, lost,
                   issued, revoked, artifacts, welcomes>>

\* getStats up to the await in nbUsers(): countDocuments is called on
\* this.usersCollection, which is undefined until the connect has succeeded
GetStatsStart(r) ==
    /\ CanStart(r)
    /\ LET rq == [IdleReq EXCEPT !.kind = "getStats"]
       IN reqs' = [reqs EXCEPT ![r] =
              IF ~Connected(db) THEN Crash(rq) ELSE [rq EXCEPT !.pc = "nbUsers"]]
    /\ started' = started + 1
    /\ UNCHANGED <<now, db, wdb, users, jobs, rstate, cmdQ, sess, nextTok, lost,
                   issued, revoked, artifacts, welcomes>>

\* nbUsers() answers; on to the await in nbFiles()
GetStatsUsers(r) ==
    /\ reqs[r].kind = "getStats" /\ reqs[r].pc = "nbUsers"
    /\ reqs' = [reqs EXCEPT ![r] = [@ EXCEPT !.pc = "nbFiles", !.resp.nUsers = nbUsers]]
    /\ UNCHANGED <<now, db, wdb, users, started, jobs, rstate, cmdQ, sess, nextTok,
                   lost, issued, revoked, artifacts, welcomes>>

\* nbFiles() answers: 200 with both counts
GetStatsFiles(r) ==
    /\ reqs[r].kind = "getStats" /\ reqs[r].pc = "nbFiles"
    /\ LET stats == [users |-> reqs[r].resp.nUsers, files |-> nbFiles]
       IN reqs' = [reqs EXCEPT ![r] =
              Respond(@, [NoResp EXCEPT !.status = 200, !.nUsers = stats.users,
                                        !.nFiles = stats.files])]
    /\ UNCHANGED <<now, db, wdb, users, started, jobs, rstate, cmdQ, sess, nextTok,
                   lost, issued, revoked, artifacts, welcomes>>

(***************************************************************************)
(* Bull queues.                                                            *)
(***************************************************************************)
NoThumbs == [i \in 1..Len(Widths) |-> [pc |-> "none", width |-> 0, err |-> FALSE]]
NewJob(queue, fileId, userId, by) ==
    [q |-> queue, fileId |-> fileId, userId |-> userId, by |-> by,
     st |-> "waiting", err |-> "", queried |-> FALSE, path |-> "", th |-> NoThumbs]

\* queue.add(data)
Add(js, job) == Append(js, job)

(***************************************************************************)
(* UsersController.postNew                                                 *)
(***************************************************************************)
PostNewStart(r) ==
    /\ CanStart(r)
    /\ Len(users) + Cardinality({x \in Req : reqs[x].kind = "postNew" /\ ~Ended(x)}) < MaxUsers
    /\ \E email \in Emails, password \in Passwords :
         LET rq == [IdleReq EXCEPT !.kind = "postNew", !.email = email,
                                   !.password = password]
         IN reqs' = [reqs EXCEPT ![r] =
                IF ~Truthy(email) THEN Respond(rq, ErrorResp(400, "Missing email"))
                ELSE IF ~Truthy(password) THEN Respond(rq, ErrorResp(400, "Missing password"))
                ELSE IF ~Connected(db) THEN Crash(rq)
                ELSE [rq EXCEPT !.pc = "findOne"]]
    /\ started' = started + 1
    /\ UNCHANGED <<now, db, wdb, users, jobs, rstate, cmdQ, sess, nextTok, lost,
                   issued, revoked, artifacts, welcomes>>

\* usersCollection.findOne({ email }) answers
PostNewFindOne(r) ==
    /\ reqs[r].kind = "postNew" /\ reqs[r].pc = "findOne"
    /\ LET emailExists == {i \in 1..Len(users) : users[i].email = reqs[r].email}
       IN reqs' = [reqs EXCEPT ![r] =
              IF Found(emailExists)
              THEN Respond(@, ErrorResp(400, "Already exist"))
              ELSE [@ EXCEPT !.pc = "insertOne"]]
    /\ UNCHANGED <<now, db, wdb, users, started, jobs, rstate, cmdQ, sess, nextTok,
                   lost, issued, revoked, artifacts, welcomes>>

\* as PostNewInsertOne, but an insert reported as failed has written its record
PostNewInsertOneWritten(r) ==
    /\ reqs[r].kind = "postNew" /\ reqs[r].pc = "insertOne"
    /\ \E ok \in BOOLEAN :
         LET id == Len(users) + 1
         IN /\ users' = Append(users, [_id |-> id, email |-> reqs[r].email,
                                       password |-> Sha1(reqs[r].password)])
            /\ reqs' = [reqs EXCEPT ![r] =
                   IF ok THEN [@ EXCEPT !.pc = "add", !.insertedId = id, !.inserted = @ + 1]
                   ELSE [@ EXCEPT !.pc = "addEmpty"]]
    /\ UNCHANGED <<now, db, wdb, started, jobs, rstate, cmdQ, sess, nextTok, lost,
                   issued, revoked, artifacts, welcomes>>

\* usersCollection.insertOne({ email, password: sha1Password }) answers
PostNewInsertOne(r) ==
    /\ reqs[r].kind = "postNew" /\ reqs[r].pc = "insertOne"
    /\ \E ok \in BOOLEAN :
         IF ok
         THEN LET id == Len(users) + 1
              IN /\ users' = Append(users, [_id |-> id, email |-> reqs[r].email,
                                           password |-> Sha1(reqs[r].password)])
                 /\ reqs' = [reqs EXCEPT ![r] = [@ EXCEPT !.pc = "add",
                                 !.insertedId = id, !.inserted = @ + 1]]
         ELSE /\ users' = users
              /\ reqs' = [reqs EXCEPT ![r] = [@ EXCEPT !.pc = "addEmpty"]]
    /\ UNCHANGED <<now, db, wdb, started, jobs, rstate, cmdQ, sess, nextTok, lost,
                   issued, revoked, artifacts, welcomes>>

\* the catch branch: userQueue.add({}) answers, then 500
PostNewAddEmpty(r) ==
    /\ reqs[r].kind = "postNew" /\ reqs[r].pc = "addEmpty"
    /\ jobs' = Add(jobs, NewJob("userQueue", NullStr, NullStr, "postNew"))
    /\ reqs' = [reqs EXCEPT ![r] = Respond(@, ErrorResp(500, "Error creating user."))]
    /\ UNCHANGED <<now, db, wdb, users, started, rstate, cmdQ, sess, nextTok, lost,
                   issued, revoked, artifacts, welcomes>>

\* userQueue.add({ userId: result.insertedId.toString() }) answers, then 201
PostNewAdd(r) ==
    /\ reqs[r].kind = "postNew" /\ reqs[r].pc = "add"
    /\ jobs' = Add(jobs, NewJob("userQueue", NullStr, ToString(reqs[r].insertedId), "postNew"))
    /\ LET user == [id |-> reqs[r].insertedId, email |-> reqs[r].email]
       IN reqs' = [reqs EXCEPT ![r] = Respond(@, SendUser(201, user))]
    /\ UNCHANGED <<now, db, wdb, users, started, rstate, cmdQ, sess, nextTok, lost,
                   issued, revoked, artifacts, welcomes>>

(***************************************************************************)
(* Session store: the redis keyspace and the node_redis client in front    *)
(* of it. The client sends commands down one connection, in order; while   *)
(* it has no connection it keeps them for the next one; once it gives up   *)
(* (state "closed") every command fails. A command without a callback      *)
(* that fails is only reported to the 'error' listener.                    *)
(***************************************************************************)
Key(tok) == <<"auth_", tok>>
Keys == {Key(t) : t \in 1..BogusToken}
NoKey == [val |-> NullStr, exp |-> 0]

\* what GET answers at time t: nil for a missing or an expired key
Get(store, key, t) ==
    IF store[key] # NoKey /\ t < store[key].exp THEN store[key].val ELSE NullStr

\* SETEX key seconds value, executed at time t
Setex(store, key, seconds, value, t) ==
    [store EXCEPT ![key] = [val |-> value, exp |-> t + seconds]]

\* as Del, but every key that holds the same user id goes with it
DelUserKeys(store, key) ==
    [k \in DOMAIN store |-> IF store[k].val = store[key].val THEN NoKey ELSE store[k]]

\* DEL key
Del(store, key) == [store EXCEPT ![key] = NoKey]

NoCmd == [op |-> "none", key |-> Key(BogusToken), val |-> NullStr, ttl |-> 0, req |-> 0]

\* client.<command>(...): handed to the connection, or kept for the next one
Send(q, cmd) == IF rstate = "closed" THEN q ELSE Append(q, cmd)

\* RedisClient.set(key, value, duration): setex without a callback
set(q, key, value, duration) ==
    Send(q, [NoCmd EXCEPT !.op = "setex", !.key = key, !.val = value, !.ttl = duration])

\* RedisClient.del(key): del without a callback
del(q, key) == Send(q, [NoCmd EXCEPT !.op = "del", !.key = key])

\* RedisClient.get(key): the promisified get of request r
get(q, key, r) == Send(q, [NoCmd EXCEPT !.op = "get", !.key = key, !.req = r])

HeadIs(op) == rstate = "ready" /\ cmdQ # <<>> /\ Head(cmdQ).op = op

\* the server executes a SETEX
RedisSetex ==
    /\ HeadIs("setex")
    /\ sess' = Setex(sess, Head(cmdQ).key, Head(cmdQ).ttl, Head(cmdQ).val, now)
    /\ cmdQ' = Tail(cmdQ)
    /\ UNCHANGED <<now, db, wdb, users, reqs, started, jobs, rstate, nextTok, lost,
                   issued, revoked, artifacts, welcomes>>

\* the server executes a DEL
RedisDel ==
    /\ HeadIs("del")
    /\ sess' = Del(sess, Head(cmdQ).key)
    /\ cmdQ' = Tail(cmdQ)
    /\ UNCHANGED <<now, db, wdb, users, reqs, started, jobs, rstate, nextTok, lost,
                   issued, revoked, artifacts, welcomes>>

\* every request waiting for a reply gets an error: its await throws
AbortWaiting(rs) == [r \in Req |-> IF rs[r].pc = "get" THEN Crash(rs[r]) ELSE rs[r]]

\* 'ready': the connection is established (again)
RedisConnect ==
    /\ rstate = "offline"
    /\ rstate' = "ready"
    /\ UNCHANGED <<now, db, wdb, users, reqs, started, jobs, cmdQ, sess, nextTok,
                   lost, issued, revoked, artifacts, welcomes>>

\* the connection drops: the commands in flight are aborted
RedisLost ==
    /\ rstate = "ready" /\ lost < MaxLost
    /\ rstate' = "offline"
    /\ lost' = lost + 1
    /\ cmdQ' = <<>>
    /\ reqs' = AbortWaiting(reqs)
    /\ UNCHANGED <<now, db, wdb, users, started, jobs, sess, nextTok, issued,
                   revoked, artifacts, welcomes>>

\* the client gives up reconnecting: the kept commands are flushed
RedisBroken ==
    /\ rstate = "offline"
    /\ rstate' = "closed"
    /\ cmdQ' = <<>>
    /\ reqs' = AbortWaiting(reqs)
    /\ UNCHANGED <<now, db, wdb, users, started, jobs, sess, nextTok, lost, issued,
                   revoked, artifacts, welcomes>>

\* time passes
Tick ==
    /\ now < MaxTicks * TickStep
    /\ now' = now + TickStep
    /\ UNCHANGED <<db, wdb, users, reqs, started, jobs, rstate, cmdQ, sess, nextTok,
                   lost, issued, revoked, artifacts, welcomes>>

(***************************************************************************)
(* AuthController.getConnect                                               *)
(***************************************************************************)
\* uuidv4(): a token never handed out before
uuidv4(n) == n + 1

\* the credentials part of the Authorization header
Credentials(hdr) == At(Split(hdr, " "), 2)
\* [email, password] = decodedCredentials.split(':')
DecodedParts(hdr) == Split(B64Decode(Credentials(hdr)), ":")
HeaderEmail(hdr) == At(DecodedParts(hdr), 1)
HeaderPassword(hdr) == At(DecodedParts(hdr), 2)

\* the query { email, password: sha1Password } of getConnect
Credential(email, password, u) == u.email = email /\ u.password = Sha1(password)

GetConnectStart(r) ==
    /\ CanStart(r)
    /\ nextTok + Cardinality({x \in Req : reqs[x].kind = "getConnect" /\ ~Ended(x)}) < MaxTok
    /\ \E hdr \in Headers :
         LET rq == [IdleReq EXCEPT !.kind = "getConnect", !.hdr = hdr,
                        !.email = HeaderEmail(hdr), !.password = HeaderPassword(hdr)]
         IN reqs' = [reqs EXCEPT ![r] =
                IF ~Truthy(Credentials(hdr)) THEN Respond(rq, Unauthorized)
                ELSE IF ~Truthy(rq.email) \/ ~Truthy(rq.password) THEN Respond(rq, Unauthorized)
                ELSE IF ~Connected(db) THEN Crash(rq)
                ELSE [rq EXCEPT !.pc = "getUser"]]
    /\ started' = started + 1
    /\ UNCHANGED <<now, db, wdb, users, jobs, rstate, cmdQ, sess, nextTok, lost,
                   issued, revoked, artifacts, welcomes>>

\* as GetConnectGetUser, but an email no record has is answered 404
GetConnectGetUserLeaky(r) ==
    /\ reqs[r].kind = "getConnect" /\ reqs[r].pc = "getUser"
    /\ LET m == {i \in 1..Len(users) :
                     Credential(reqs[r].email, reqs[r].password, users[i])}
           sameEmail == {i \in 1..Len(users) : users[i].email = reqs[r].email}
       IN IF ~Found(m)
          THEN /\ reqs' = [reqs EXCEPT ![r] =
                      IF Found(sameEmail) THEN Respond(@, Unauthorized)
                      ELSE Respond(@, ErrorResp(404, "Not found"))]
               /\ UNCHANGED <<cmdQ, nextTok, issued>>
          ELSE LET user == FindOne(users, m)
                   token == uuidv4(nextTok)
               IN /\ nextTok' = token
                  /\ cmdQ' = set(cmdQ, Key(token), ToString(user._id), TTL)
                  /\ reqs' = [reqs EXCEPT ![r] =
                         Respond(@, [NoResp EXCEPT !.status = 200, !.token = token])]
                  /\ issued' = issued \cup {[tok |-> token, uid |-> user._id, at |-> now]}
    /\ UNCHANGED <<now, db, wdb, users, started, jobs, rstate, sess, lost, revoked,
                   artifacts, welcomes>>

\* userUtils.getUser({ email, password }) answers; on a match the token is
\* stored with set() and the 200 is sent
GetConnectGetUser(r) ==
    /\ reqs[r].kind = "getConnect" /\ reqs[r].pc = "getUser"
    /\ LET m == {i \in 1..Len(users) :
                     Credential(reqs[r].email, reqs[r].password, users[i])}
       IN IF ~Found(m)
          THEN /\ reqs' = [reqs EXCEPT ![r] = Respond(@, Unauthorized)]
               /\ UNCHANGED <<cmdQ, nextTok, issued>>
          ELSE LET user == FindOne(users, m)
                   token == uuidv4(nextTok)
               IN /\ nextTok' = token
                  /\ cmdQ' = set(cmdQ, Key(token), ToString(user._id), TTL)
                  /\ reqs' = [reqs EXCEPT ![r] =
                         Respond(@, [NoResp EXCEPT !.status = 200, !.token = token])]
                  /\ issued' = issued \cup {[tok |-> token, uid |-> user._id, at |-> now]}
    /\ UNCHANGED <<now, db, wdb, users, started, jobs, rstate, sess, lost, revoked,
                   artifacts, welcomes>>

(***************************************************************************)
(* userUtils.getUserIdAndKey, AuthController.getDisconnect and             *)
(* UsersController.getMe                                                   *)
(***************************************************************************)
\* the X-Token values a client can present: none (0), a token some sign-in
\* handed out, or a made-up one
TokenInputs == (0..nextTok) \cup {BogusToken}

\* getUserIdAndKey up to its await: no header, no lookup
ResolveStart(r, kind) ==
    /\ CanStart(r)
    /\ \E tok \in TokenInputs :
         LET rq == [IdleReq EXCEPT !.kind = kind, !.tok = tok,
                                   !.afterRevoke = tok \in revoked]
         IN IF tok = 0
            THEN /\ cmdQ' = cmdQ
                 /\ reqs' = [reqs EXCEPT ![r] =
                        IF kind = "getDisconnect" THEN Respond(rq, Unauthorized)
                        ELSE IF ~Connected(db) THEN Crash(rq)
                        ELSE [rq EXCEPT !.pc = "getUser"]]
            ELSE /\ cmdQ' = get(cmdQ, Key(tok), r)
                 /\ reqs' = [reqs EXCEPT ![r] =
                        IF rstate = "closed" THEN Crash(rq)
                        ELSE [rq EXCEPT !.pc = "get"]]
    /\ started' = started + 1
    /\ UNCHANGED <<now, db, wdb, users, jobs, rstate, sess, nextTok, lost, issued,
                   revoked, artifacts, welcomes>>

GetDisconnectStart(r) == ResolveStart(r, "getDisconnect")

GetMeStart(r) == ResolveStart(r, "getMe")

\* the GET of a sign-out is answered: 401, or del() and 204
GetDisconnectGot(r) ==
    /\ HeadIs("get") /\ Head(cmdQ).req = r
    /\ reqs[r].kind = "getDisconnect" /\ reqs[r].pc = "get"
    /\ LET userId == Get(sess, Head(cmdQ).key, now)
       IN IF ~TruthyId(userId)
          THEN /\ reqs' = [reqs EXCEPT ![r] = Respond(@, Unauthorized)]
               /\ cmdQ' = Tail(cmdQ)
               /\ revoked' = revoked
          ELSE /\ reqs' = [reqs EXCEPT ![r] =
                      Respond([@ EXCEPT !.userId = userId], [NoResp EXCEPT !.status = 204])]
               /\ cmdQ' = del(Tail(cmdQ), Key(reqs[r].tok))
               /\ revoked' = revoked \cup {reqs[r].tok}
    /\ UNCHANGED <<now, db, wdb, users, started, jobs, rstate, sess, nextTok, lost,
                   issued, artifacts, welcomes>>

\* as GetMeGot, but reading a live key starts its time to live afresh
GetMeGotRenew(r) ==
    /\ HeadIs("get") /\ Head(cmdQ).req = r
    /\ reqs[r].kind = "getMe" /\ reqs[r].pc = "get"
    /\ LET userId == Get(sess, Head(cmdQ).key, now)
       IN /\ reqs' = [reqs EXCEPT ![r] =
                 IF ~Connected(db) THEN Crash([@ EXCEPT !.userId = userId])
                 ELSE [@ EXCEPT !.userId = userId, !.pc = "getUser"]]
          /\ sess' = IF userId = NullStr THEN sess
                     ELSE Setex(sess, Head(cmdQ).key, TTL, userId, now)
    /\ cmdQ' = Tail(cmdQ)
    /\ UNCHANGED <<now, db, wdb, users, started, jobs, rstate, nextTok, lost,
                   issued, revoked, artifacts, welcomes>>

\* the GET of getMe is answered: on to userUtils.getUser({ _id })
GetMeGot(r) ==
    /\ HeadIs("get") /\ Head(cmdQ).req = r
    /\ reqs[r].kind = "getMe" /\ reqs[r].pc = "get"
    /\ LET userId == Get(sess, Head(cmdQ).key, now)
       IN reqs' = [reqs EXCEPT ![r] =
              IF ~Connected(db) THEN Crash([@ EXCEPT !.userId = userId])
              ELSE [@ EXCEPT !.userId = userId, !.pc = "getUser"]]
    /\ cmdQ' = Tail(cmdQ)
    /\ UNCHANGED <<now, db, wdb, users, started, jobs, rstate, sess, nextTok, lost,
                   issued, revoked, artifacts, welcomes>>

\* as ProcessedUser, but only _id is deleted
ProcessedUserWithPassword(user) == Delete(Spread([id |-> user._id], user), "_id")

\* processedUser of getMe: { id: user._id, ...user } less _id and password
ProcessedUser(user) ==
    Delete(Delete(Spread([id |-> user._id], user), "_id"), "password")

\* as GetMeGetUser, but a token that resolves to nothing gets the first user
GetMeGetUserAny(r) ==
    /\ reqs[r].kind = "getMe" /\ reqs[r].pc = "getUser"
    /\ LET m == {i \in 1..Len(users) : users[i]._id = ObjectId(reqs[r].userId)}
       IN reqs' = [reqs EXCEPT ![r] =
              Respond(@, SendUser(200, ProcessedUser(
                  IF Found(m) THEN FindOne(users, m) ELSE users[1])))]
    /\ UNCHANGED <<now, db, wdb, users, started, jobs, rstate, cmdQ, sess, nextTok,
                   lost, issued, revoked, artifacts, welcomes>>

\* userUtils.getUser({ _id: ObjectId(userId) }) answers: 401, or 200 with
\* the record less its password
GetMeGetUser(r) ==
    /\ reqs[r].kind = "getMe" /\ reqs[r].pc = "getUser"
    /\ LET m == {i \in 1..Len(users) : users[i]._id = ObjectId(reqs[r].userId)}
       IN reqs' = [reqs EXCEPT ![r] =
              IF ~Found(m) THEN Respond(@, Unauthorized)
              ELSE Respond(@, SendUser(200, ProcessedUser(FindOne(users, m))))]
    /\ UNCHANGED <<now, db, wdb, users, started, jobs, rstate, cmdQ, sess, nextTok,
                   lost, issued, revoked, artifacts, welcomes>>

(***************************************************************************)
(* worker.js: the consumers of fileQueue and userQueue.                    *)
(***************************************************************************)
\* basicUtils.isValidId: the text has the shape of a store identifier
isValidId(s) == s.shape = "hex"

\* the payload fields a producer outside this model may put in a job
ExtIds == {NullStr, EmptyStr, BadStr} \cup {ToString(n) : n \in 1..(Len(Files) + 1)}

Fail(job, msg) == [job EXCEPT !.st = "failed", !.err = msg]

\* the connect callback of the worker's DBClient
WorkerDbConnect ==
    /\ wdb = "connecting"
    /\ \E ok \in BOOLEAN : wdb' = IF ok THEN "ready" ELSE "failed"
    /\ UNCHANGED <<now, db, users, reqs, started, jobs, rstate, cmdQ, sess,
                   nextTok, lost, issued, revoked, artifacts, welcomes>>

ExtJobs == {j \in 1..Len(jobs) : jobs[j].by = "external"}
FileJobs == {j \in 1..Len(jobs) : jobs[j].q = "fileQueue"}

\* a user job arrives from another producer (or is delivered again)
ExtUserJob ==
    /\ Cardinality(ExtJobs) < MaxExtJobs
    /\ \E userId \in ExtIds :
         jobs' = Add(jobs, NewJob("userQueue", NullStr, userId, "external"))
    /\ UNCHANGED <<now, db, wdb, users, reqs, started, rstate, cmdQ, sess, nextTok,
                   lost, issued, revoked, artifacts, welcomes>>

\* the upload handler (or any producer) puts a job on fileQueue
ExtFileJob ==
    /\ Cardinality(FileJobs) < MaxFileJobs
    /\ \E fileId \in ExtIds, userId \in ExtIds :
         jobs' = Add(jobs, NewJob("fileQueue", fileId, userId, "upload"))
    /\ UNCHANGED <<now, db, wdb, users, reqs, started, rstate, cmdQ, sess, nextTok,
                   lost, issued, revoked, artifacts, welcomes>>

\* as FileJobStart, but only the presence of the two ids is checked
FileJobStartUnchecked(j) ==
    /\ jobs[j].q = "fileQueue" /\ jobs[j].st = "waiting"
    /\ jobs' = [jobs EXCEPT ![j] =
           IF ~TruthyId(@.userId) THEN Fail(@, "Missing userId")
           ELSE IF ~TruthyId(@.fileId) THEN Fail(@, "Missing fileId")
           ELSE IF ~isAlive(wdb) THEN Fail(@, "TypeError")
           ELSE [@ EXCEPT !.st = "active", !.queried = TRUE]]
    /\ UNCHANGED <<now, db, wdb, users, reqs, started, rstate, cmdQ, sess, nextTok,
                   lost, issued, revoked, artifacts, welcomes>>

\* the queue delivers job j once more (at-least-once delivery): the consumer
\* gets a job with the same payload, whatever has become of the first one
Redeliver(j) ==
    /\ Cardinality({k \in 1..Len(jobs) : jobs[k].by = "redelivered"}) < MaxRedeliver
    /\ jobs[j].q = "fileQueue" => Cardinality(FileJobs) < MaxFileJobs
    /\ jobs' = Add(jobs, NewJob(jobs[j].q, jobs[j].fileId, jobs[j].userId, "redelivered"))
    /\ UNCHANGED <<now, db, wdb, users, reqs, started, rstate, cmdQ, sess, nextTok,
                   lost, issued, revoked, artifacts, welcomes>>

\* fileQueue.process up to the await of fileUtils.getFile
FileJobStart(j) ==
    /\ jobs[j].q = "fileQueue" /\ jobs[j].st = "waiting"
    /\ jobs' = [jobs EXCEPT ![j] =
           IF ~TruthyId(@.userId) THEN Fail(@, "Missing userId")
           ELSE IF ~TruthyId(@.fileId) THEN Fail(@, "Missing fileId")
           ELSE IF ~isValidId(@.fileId) \/ ~isValidId(@.userId) THEN Fail(@, "File not found")
           ELSE IF ~isAlive(wdb) THEN Fail(@, "TypeError")
           ELSE [@ EXCEPT !.st = "active", !.queried = TRUE]]
    /\ UNCHANGED <<now, db, wdb, users, reqs, started, rstate, cmdQ, sess, nextTok,
                   lost, issued, revoked, artifacts, welcomes>>

\* as FileQuery, but the owner is left out of the filter
FileQueryIdOnly(fileId, userId, f) == f._id = ObjectId(fileId)

\* the query { _id: ObjectId(fileId), userId: ObjectId(userId) } of the file job
FileQuery(fileId, userId, f) == f._id = ObjectId(fileId) /\ f.userId = ObjectId(userId)

\* widths.forEach(async (width) => ...): each callback runs up to its first
\* await, the call of imageThumbnail(localPath, options)
StartThumbs ==
    [i \in 1..Len(Widths) |->
        LET options == [width |-> Widths[i]]
        IN [pc |-> "deriving", width |-> options.width, err |-> FALSE]]

\* fileUtils.getFile answers: 'File not found', or the thumbnails are
\* started and the processor returns
FileJobFetch(j) ==
    /\ jobs[j].q = "fileQueue" /\ jobs[j].st = "active"
    /\ LET m == {k \in 1..Len(Files) :
                     FileQuery(jobs[j].fileId, jobs[j].userId, Files[k])}
       IN jobs' = [jobs EXCEPT ![j] =
              IF ~Found(m) THEN Fail(@, "File not found")
              ELSE [@ EXCEPT !.st = "completed", !.path = FindOne(Files, m).localPath,
                             !.th = StartThumbs]]
    /\ UNCHANGED <<now, db, wdb, users, reqs, started, rstate, cmdQ, sess, nextTok,
                   lost, issued, revoked, artifacts, welcomes>>

\* as ThumbDerive, but the error is not caught: it fails the job
ThumbDeriveThrow(j, i) ==
    /\ jobs[j].q = "fileQueue" /\ jobs[j].th[i].pc = "deriving"
    /\ \E ok \in BOOLEAN :
         jobs' = [jobs EXCEPT ![j] =
             IF ok THEN [@ EXCEPT !.th[i].pc = "writing"]
             ELSE [@ EXCEPT !.st = "failed", !.err = "thumbnail",
                            !.th[i] = [@ EXCEPT !.pc = "failed", !.err = TRUE]]]
    /\ UNCHANGED <<now, db, wdb, users, reqs, started, rstate, cmdQ, sess, nextTok,
                   lost, issued, revoked, artifacts, welcomes>>

\* imageThumbnail(localPath, options) settles: on to writeFile, or the
\* error is logged
ThumbDerive(j, i) ==
    /\ jobs[j].q = "fileQueue" /\ jobs[j].th[i].pc = "deriving"
    /\ \E ok \in BOOLEAN :
         jobs' = [jobs EXCEPT ![j].th[i] =
             IF ok THEN [@ EXCEPT !.pc = "writing"]
             ELSE [@ EXCEPT !.pc = "failed", !.err = TRUE]]
    /\ UNCHANGED <<now, db, wdb, users, reqs, started, rstate, cmdQ, sess, nextTok,
                   lost, issued, revoked, artifacts, welcomes>>

\* as Artifact, but the content differs between the deliveries of a job
ArtifactOfDelivery(job, i) ==
    [name |-> <<job.path, Widths[i]>>,
     width |-> IF job.by = "redelivered" THEN job.th[i].width + 1 ELSE job.th[i].width]

\* the name and the content of the thumbnail a callback writes
Artifact(job, i) == [name |-> <<job.path, Widths[i]>>, width |-> job.th[i].width]

\* fsPromises.writeFile(`${localPath}_${width}`, thumbnail) settles
ThumbWrite(j, i) ==
    /\ jobs[j].q = "fileQueue" /\ jobs[j].th[i].pc = "writing"
    /\ \E ok \in BOOLEAN :
         IF ok
         THEN /\ jobs' = [jobs EXCEPT ![j].th[i].pc = "done"]
              /\ artifacts' = artifacts \cup {Artifact(jobs[j], i)}
         ELSE /\ jobs' = [jobs EXCEPT ![j].th[i] = [@ EXCEPT !.pc = "failed", !.err = TRUE]]
              /\ artifacts' = artifacts
    /\ UNCHANGED <<now, db, wdb, users, reqs, started, rstate, cmdQ, sess, nextTok,
                   lost, issued, revoked, welcomes>>

\* as UserJobStart, but only the presence of userId is checked
UserJobStartUnchecked(j) ==
    /\ jobs[j].q = "userQueue" /\ jobs[j].st = "waiting"
    /\ jobs' = [jobs EXCEPT ![j] =
           IF ~TruthyId(@.userId) THEN Fail(@, "Missing userId")
           ELSE IF ~isAlive(wdb) THEN Fail(@, "TypeError")
           ELSE [@ EXCEPT !.st = "active", !.queried = TRUE]]
    /\ UNCHANGED <<now, db, wdb, users, reqs, started, rstate, cmdQ, sess, nextTok,
                   lost, issued, revoked, artifacts, welcomes>>

\* userQueue.process up to the await of userUtils.getUser
UserJobStart(j) ==
    /\ jobs[j].q = "userQueue" /\ jobs[j].st = "waiting"
    /\ jobs' = [jobs EXCEPT ![j] =
           IF ~TruthyId(@.userId) THEN Fail(@, "Missing userId")
           ELSE IF ~isValidId(@.userId) THEN Fail(@, "User not found")
           ELSE IF ~isAlive(wdb) THEN Fail(@, "TypeError")
           ELSE [@ EXCEPT !.st = "active", !.queried = TRUE]]
    /\ UNCHANGED <<now, db, wdb, users, reqs, started, rstate, cmdQ, sess, nextTok,
                   lost, issued, revoked, artifacts, welcomes>>

\* as UserJobFetch, but the welcome message names the first user on record
UserJobFetchFirst(j) ==
    /\ jobs[j].q = "userQueue" /\ jobs[j].st = "active"
    /\ LET m == {i \in 1..Len(users) : users[i]._id = ObjectId(jobs[j].userId)}
       IN IF ~Found(m)
          THEN /\ jobs' = [jobs EXCEPT ![j] = Fail(@, "User not found")]
               /\ welcomes' = welcomes
          ELSE /\ jobs' = [jobs EXCEPT ![j].st = "completed"]
               /\ welcomes' = Append(welcomes, users[1].email)
    /\ UNCHANGED <<now, db, wdb, users, reqs, started, rstate, cmdQ, sess, nextTok,
                   lost, issued, revoked, artifacts>>

\* userUtils.getUser({ _id: ObjectId(userId) }) answers: 'User not found',
\* or the welcome message is logged
UserJobFetch(j) ==
    /\ jobs[j].q = "userQueue" /\ jobs[j].st = "active"
    /\ LET m == {i \in 1..Len(users) : users[i]._id = ObjectId(jobs[j].userId)}
       IN IF ~Found(m)
          THEN /\ jobs' = [jobs EXCEPT ![j] = Fail(@, "User not found")]
               /\ welcomes' = welcomes
          ELSE /\ jobs' = [jobs EXCEPT ![j].st = "completed"]
               /\ welcomes' = Append(welcomes, FindOne(users, m).email)
    /\ UNCHANGED <<now, db, wdb, users, reqs, started, rstate, cmdQ, sess, nextTok,
                   lost, issued, revoked, artifacts>>

(***************************************************************************)
(* The system.                                                             *)
(***************************************************************************)
\* both processes have just been started; us are the users registered so far
InitWith(us) ==
    /\ now = 0
    /\ db = "connecting"
    /\ wdb = "connecting"
    /\ users = us
    /\ reqs = [r \in Req |-> IdleReq]
    /\ started = 0
    /\ jobs = <<>>
    /\ rstate = "offline"
    /\ cmdQ = <<>>
    /\ sess = [k \in Keys |-> NoKey]
    /\ nextTok = 0
    /\ lost = 0
    /\ issued = {}
    /\ revoked = {}
    /\ artifacts = {}
    /\ welcomes = <<>>

Init == InitWith(<<FirstUser>>)

Server ==
    \/ DbConnect
    \/ DbLost
    \/ \E r \in Req : GetStatus(r)
    \/ \E r \in Req : GetStatsStart(r)
    \/ \E r \in Req : GetStatsUsers(r)
    \/ \E r \in Req : GetStatsFiles(r)
    \/ \E r \in Req : PostNewStart(r)
    \/ \E r \in Req : PostNewFindOne(r)
    \/ \E r \in Req : PostNewInsertOne(r)
    \/ \E r \in Req : PostNewAddEmpty(r)
    \/ \E r \in Req : PostNewAdd(r)
    \/ \E r \in Req : GetConnectStart(r)
    \/ \E r \in Req : GetConnectGetUser(r)
    \/ \E r \in Req : GetDisconnectStart(r)
    \/ \E r \in Req : GetDisconnectGot(r)
    \/ \E r \in Req : GetMeStart(r)
    \/ \E r \in Req : GetMeGot(r)
    \/ \E r \in Req : GetMeGetUser(r)

Redis ==
    \/ RedisConnect
    \/ RedisLost
    \/ RedisBroken
    \/ RedisSetex
    \/ RedisDel
    \/ Tick

Worker ==
    \/ WorkerDbConnect
    \/ ExtUserJob
    \/ ExtFileJob
    \/ \E j \in 1..Len(jobs) : Redeliver(j)
    \/ \E j \in 1..Len(jobs) : FileJobStart(j)
    \/ \E j \in 1..Len(jobs) : FileJobFetch(j)
    \/ \E j \in 1..Len(jobs), i \in 1..Len(Widths) : ThumbDerive(j, i)
    \/ \E j \in 1..Len(jobs), i \in 1..Len(Widths) : ThumbWrite(j, i)
    \/ \E j \in 1..Len(jobs) : UserJobStart(j)
    \/ \E j \in 1..Len(jobs) : UserJobFetch(j)

Next == Server \/ Redis \/ Worker

Spec == Init /\ [][Next]_vars

(***************************************************************************)
(* The three parts of the system share only the users collection (written  *)
(* by postNew alone) and the two connectors, so each is also checked on    *)
(* its own, with the other parts at rest.                                  *)
(***************************************************************************)
\* sign-in, sign-out and getMe over the session store
AuthNext ==
    \/ DbConnect
    \/ \E r \in Req : GetConnectStart(r)
    \/ \E r \in Req : GetConnectGetUser(r)
    \/ \E r \in Req : GetDisconnectStart(r)
    \/ \E r \in Req : GetDisconnectGot(r)
    \/ \E r \in Req : GetMeStart(r)
    \/ \E r \in Req : GetMeGot(r)
    \/ \E r \in Req : GetMeGetUser(r)
    \/ Redis

InitAuth == \E us \in {<<FirstUser>>, <<FirstUser, SecondUser>>} : InitWith(us)

SpecAuth == InitAuth /\ [][AuthNext]_vars

\* user creation and the userQueue consumer
UsersNext ==
    \/ DbConnect
    \/ \E r \in Req : PostNewStart(r)
    \/ \E r \in Req : PostNewFindOne(r)
    \/ \E r \in Req : PostNewInsertOne(r)
    \/ \E r \in Req : PostNewAddEmpty(r)
    \/ \E r \in Req : PostNewAdd(r)
    \/ WorkerDbConnect
    \/ ExtUserJob
    \/ \E j \in 1..Len(jobs) : UserJobStart(j)
    \/ \E j \in 1..Len(jobs) : UserJobFetch(j)

SpecUsers == Init /\ [][UsersNext]_vars

\* the fileQueue consumer
FilesNext ==
    \/ WorkerDbConnect
    \/ ExtFileJob
    \/ \E j \in 1..Len(jobs) : FileJobStart(j)
    \/ \E j \in 1..Len(jobs) : FileJobFetch(j)
    \/ \E j \in 1..Len(jobs), i \in 1..Len(Widths) : ThumbDerive(j, i)
    \/ \E j \in 1..Len(jobs), i \in 1..Len(Widths) : ThumbWrite(j, i)

SpecFiles == Init /\ [][FilesNext]_vars

\* user creation, one request after the other, and the userQueue consumer
WelcomeNext ==
    \/ DbConnect
    \/ \E r \in {1} : PostNewStart(r)
    \/ \E r \in {1} : PostNewFindOne(r)
    \/ \E r \in {1} : PostNewInsertOne(r)
    \/ \E r \in {1} : PostNewAddEmpty(r)
    \/ \E r \in {1} : PostNewAdd(r)
    \/ WorkerDbConnect
    \/ ExtUserJob
    \/ \E j \in 1..Len(jobs) : UserJobStart(j)
    \/ \E j \in 1..Len(jobs) : UserJobFetch(j)

\* the userQueue consumer runs: a job it can take up, or whose fetch can
\* answer, is not left alone for ever
SpecWelcome ==
    /\ Init /\ [][WelcomeNext]_vars
    /\ WF_vars(\E j \in 1..Len(jobs) : UserJobStart(j))
    /\ WF_vars(\E j \in 1..Len(jobs) : UserJobFetch(j))

\* the document store connector under /status, /stats and user creation
DbNext ==
    \/ DbConnect
    \/ DbLost
    \/ \E r \in Req : GetStatus(r)
    \/ \E r \in Req : GetStatsStart(r)
    \/ \E r \in Req : GetStatsUsers(r)
    \/ \E r \in Req : GetStatsFiles(r)
    \/ \E r \in Req : PostNewStart(r)
    \/ \E r \in Req : PostNewFindOne(r)
    \/ \E r \in Req : PostNewInsertOne(r)
    \/ \E r \in Req : PostNewAddEmpty(r)
    \/ \E r \in Req : PostNewAdd(r)
    \/ RedisConnect
    \/ RedisLost

SpecDb == Init /\ [][DbNext]_vars

\* user creation, sign-in and getMe over a session store that stays up
ProfileNext ==
    \/ DbConnect
    \/ \E r \in Req : PostNewStart(r)
    \/ \E r \in Req : PostNewFindOne(r)
    \/ \E r \in Req : PostNewInsertOne(r)
    \/ \E r \in Req : PostNewAddEmpty(r)
    \/ \E r \in Req : PostNewAdd(r)
    \/ \E r \in Req : GetConnectStart(r)
    \/ \E r \in Req : GetConnectGetUser(r)
    \/ \E r \in Req : GetMeStart(r)
    \/ \E r \in Req : GetMeGot(r)
    \/ \E r \in Req : GetMeGetUser(r)
    \/ RedisConnect
    \/ RedisSetex

SpecProfile == Init /\ [][ProfileNext]_vars

\* both consumers over queues that may deliver a job twice
DeliveryNext ==
    \/ WorkerDbConnect
    \/ Len(jobs) < MaxDelivered /\ ExtUserJob
    \/ Len(jobs) < MaxDelivered /\ ExtFileJob
    \/ \E j \in 1..Len(jobs) : Len(jobs) < MaxDelivered /\ Redeliver(j)
    \/ \E j \in 1..Len(jobs) : FileJobStart(j)
    \/ \E j \in 1..Len(jobs) : FileJobFetch(j)
    \/ \E j \in 1..Len(jobs), i \in 1..Len(Widths) : ThumbDerive(j, i)
    \/ \E j \in 1..Len(jobs), i \in 1..Len(Widths) : ThumbWrite(j, i)
    \/ \E j \in 1..Len(jobs) : UserJobStart(j)
    \/ \E j \in 1..Len(jobs) : UserJobFetch(j)

SpecWorker == InitAuth /\ [][DeliveryNext]_vars

(***************************************************************************)
(* Properties.                                                             *)
(***************************************************************************)
\* in this step the GET that request r awaits is answered
Replied(r) ==
    /\ reqs[r].pc = "get" /\ reqs'[r].pc # "get"
    /\ rstate = "ready" /\ rstate' = "ready"

\* C1: every resolve of a token that a sign-in answered 200 with, and that
\* no sign-out has revoked, returns the id of the signed-in user while less
\* than TTL seconds have passed since that answer, and nil from then on.
C1_ResolvesForTTL ==
    [][\A r \in Req : \A i \in issued :
          (Replied(r) /\ reqs[r].tok = i.tok /\ i.tok \notin revoked)
          => reqs'[r].userId = IF now < i.at + TTL THEN ToString(i.uid) ELSE NullStr]_vars

\* the key of token t is stored and its time to live is over
Expired(t) == sess[Key(t)] # NoKey /\ now >= sess[Key(t)].exp

\* C2: every resolve of a token that is made after its sign-out was answered
\* 204, or is answered after its time to live is over, returns nil.
C2_RevokedStaysAbsent ==
    [][\A r \in Req :
          (Replied(r) /\ (reqs[r].afterRevoke \/ Expired(reqs[r].tok)))
          => reqs'[r].userId = NullStr]_vars

\* C3: no two records of the users collection have the same email.
C3_UniqueEmails ==
    \A i, k \in 1..Len(users) : users[i].email = users[k].email => i = k

\* C4: every job postNew put on userQueue carries the id of a user record
\* that is in the users collection.
C4_JobsNameStoredUsers ==
    \A j \in 1..Len(jobs) :
        jobs[j].by = "postNew"
        => \E i \in 1..Len(users) : jobs[j].userId = ToString(users[i]._id)

\* a file job that has both fields, and no file record has this id and owner
PairPresent(job) == TruthyId(job.fileId) /\ TruthyId(job.userId)
NoSuchFile(job) ==
    \A k \in 1..Len(Files) :
        ~(job.fileId = ToString(Files[k]._id) /\ job.userId = ToString(Files[k].userId))
Unmatched == {j \in FileJobs : PairPresent(jobs[j]) /\ NoSuchFile(jobs[j])}

C6_IndependentWidths ==
    \A j \in FileJobs :
        jobs[j].th # NoThumbs
        => /\ jobs[j].st = "completed"
           /\ \A i \in 1..Len(Widths) :
                /\ jobs[j].th[i].pc \in {"deriving", "writing", "done", "failed"}
                /\ jobs[j].th[i].pc = "failed" => jobs[j].th[i].err
                /\ jobs[j].th[i].pc = "done"
                   => [name |-> <<jobs[j].path, Widths[i]>>, width |-> Widths[i]] \in artifacts

\* 500 and 100 are written although 250 failed, and the job is completed
C6_Witness ==
    \E j \in FileJobs :
        /\ jobs[j].st = "completed"
        /\ jobs[j].th[1].pc = "done" /\ jobs[j].th[2].pc = "failed" /\ jobs[j].th[3].pc = "done"
        /\ {a \in artifacts : a.name[1] = jobs[j].path} =
               {[name |-> <<jobs[j].path, 500>>, width |-> 500],
                [name |-> <<jobs[j].path, 100>>, width |-> 100]}

\* C7: a user job whose userId is missing or malformed is never fetched for
\* and never completes: it waits, or it has failed.
C7_InvalidUserJobFails ==
    \A j \in 1..Len(jobs) :
        (jobs[j].q = "userQueue" /\ jobs[j].userId.shape # "hex")
        => jobs[j].st \in {"waiting", "failed"} /\ ~jobs[j].queried

\* a job with a malformed userId and one with none have both failed unqueried
C7_Witness ==
    /\ \E j \in 1..Len(jobs) :
        /\ jobs[j].q = "userQueue" /\ jobs[j].userId = BadStr
        /\ jobs[j].st = "failed" /\ jobs[j].err = "User not found" /\ ~jobs[j].queried
    /\ \E j \in 1..Len(jobs) :
        /\ jobs[j].q = "userQueue" /\ jobs[j].userId = NullStr
        /\ jobs[j].st = "failed" /\ jobs[j].err = "Missing userId" /\ ~jobs[j].queried

\* C8: a postNew answered 201 has added exactly one record, one answered 400
\* or 500 none; nbUsers grows by one with each record a request adds and
\* changes in no other step, whatever the jobs do.
C8_CreatedCountsOne ==
    /\ [](\A r \in Req :
            (reqs[r].kind = "postNew" /\ reqs[r].pc = "done")
            => /\ reqs[r].resp.status \in {201, 400, 500}
               /\ reqs[r].resp.status = 201 <=> reqs[r].inserted = 1
               /\ reqs[r].resp.status \in {400, 500} <=> reqs[r].inserted = 0)
    /\ [][nbUsers' = nbUsers + Cardinality({r \in Req :
                        reqs'[r].inserted = reqs[r].inserted + 1})]_vars

\* a 201 was answered, the count is one up, and the job is still waiting
C8_Witness ==
    \E r \in Req : \E j \in 1..Len(jobs) :
        /\ reqs[r].kind = "postNew" /\ reqs[r].resp.status = 201
        /\ nbUsers = 2 /\ users[2]._id = reqs[r].resp.id
        /\ jobs[j].userId = ToString(reqs[r].resp.id) /\ jobs[j].st = "waiting"

\* a sign-in with an email and a password that no user record has together
Registered(email) == \E i \in 1..Len(users) : users[i].email = email
NoSuchCredential(rq) ==
    /\ rq.kind = "getConnect" /\ Truthy(rq.email) /\ Truthy(rq.password)
    /\ \A i \in 1..Len(users) :
          ~(users[i].email = rq.email /\ users[i].password = Sha1(rq.password))

C10_IndependentTokens ==
    /\ [](\A i1, i2 \in issued : i1.tok = i2.tok => i1 = i2)
    /\ [](\A i \in issued :
            sess[Key(i.tok)] # NoKey => sess[Key(i.tok)].val = ToString(i.uid))
    /\ [][\A k \in Keys :
            (sess[k] # NoKey /\ sess'[k] # sess[k])
            => /\ HeadIs("del") /\ Head(cmdQ).key = k
               /\ sess'[k] = NoKey
               /\ \E t \in revoked : k = Key(t)]_vars

\* two tokens of one user: the first signed out and gone, the second resolves
C10_Witness ==
    \E i1, i2 \in issued :
        /\ i1.tok # i2.tok /\ i1.uid = i2.uid
        /\ i1.tok \in revoked /\ sess[Key(i1.tok)] = NoKey
        /\ i2.tok \notin revoked /\ Get(sess, Key(i2.tok), now) = ToString(i2.uid)

\* C11: a sign-in is answered 200, and a sign-out 204, only in a step in
\* which the session store connection is alive.
C11_DeadStoreFails ==
    [][\A r \in Req :
          (/\ reqs'[r] # reqs[r] /\ reqs'[r].pc = "done"
           /\ \/ reqs'[r].kind = "getConnect" /\ reqs'[r].resp.status = 200
              \/ reqs'[r].kind = "getDisconnect" /\ reqs'[r].resp.status = 204)
          => redisIsAlive]_vars

\* C12: /status reports db: true only while the connection to the document
\* store is established and open.
C12_AliveOnlyWhenOpen ==
    [][\A r \in Req :
          (reqs'[r] # reqs[r] /\ reqs'[r].kind = "getStatus" /\ reqs'[r].resp.sDb)
          => Connected(db)]_vars

\* the positions of a handler that is waiting for the document store, or has
\* got an answer from it
DbPcs == {"findOne", "insertOne", "add", "addEmpty", "getUser", "nbUsers", "nbFiles"}

\* C13: while the document store connector is not alive, no request waits for
\* or has an answer from a collection: every /stats request and every user
\* creation that reached its first query has ended in an exception.
C13_NotAliveFails ==
    ~isAlive(db)
    => \A r \in Req :
          /\ reqs[r].pc \notin DbPcs
          /\ reqs[r].kind = "getStats" => reqs[r].pc = "crashed"
          /\ (reqs[r].kind = "postNew" /\ Truthy(reqs[r].email) /\ Truthy(reqs[r].password))
             => reqs[r].pc = "crashed"

\* the connect has failed; a /stats and a user creation were then called
C13_Witness ==
    /\ db = "failed"
    /\ \E r1, r2 \in Req :
          /\ reqs[r1].kind = "getStats" /\ reqs[r1].pc = "crashed"
          /\ reqs[r2].kind = "postNew" /\ Truthy(reqs[r2].email)
          /\ Truthy(reqs[r2].password) /\ reqs[r2].pc = "crashed"

\* C14: no response of postNew or getMe has a password property, and none of
\* its properties holds the digest of a user record.
C14_NoDigestInResponse ==
    \A r \in Req :
        reqs[r].kind \in {"postNew", "getMe"}
        => /\ reqs[r].resp.password = <<>>
           /\ \A i \in 1..Len(users) : reqs[r].resp.email # users[i].password

\* a user was created with 201, and getMe has answered 200 with a user
C14_Witness ==
    \E r1, r2 \in Req :
        /\ reqs[r1].kind = "postNew" /\ reqs[r1].resp.status = 201
        /\ reqs[r2].kind = "getMe" /\ reqs[r2].resp.status = 200
        /\ reqs[r2].resp.email = <<"a">>

\* C15: a sign-out whose token resolves to nothing answers 401 and sends no
\* command; one whose token resolves answers 204 with no body and sends the
\* DEL of that token's key; and once no command is outstanding, a token that
\* was signed out, once or twice, is absent.
C15_SignOutIdempotent ==
    /\ [][\A r \in Req :
            (reqs[r].kind = "getDisconnect" /\ reqs[r].pc = "get" /\ reqs'[r].pc = "done")
            => IF Get(sess, Key(reqs[r].tok), now) = NullStr
               THEN /\ reqs'[r].resp = Unauthorized
                    /\ sess' = sess /\ cmdQ' = Tail(cmdQ)
               ELSE /\ reqs'[r].resp = [NoResp EXCEPT !.status = 204]
                    /\ sess' = sess
                    /\ cmdQ' = Append(Tail(cmdQ), [NoCmd EXCEPT !.op = "del",
                                                       !.key = Key(reqs[r].tok)])]_vars
    /\ [](\A t \in revoked : cmdQ = <<>> => Get(sess, Key(t), now) = NullStr)

\* the jobs postNew enqueued after it had written a user record
Created == {j \in 1..Len(jobs) : jobs[j].by = "postNew" /\ jobs[j].userId.shape = "hex"}
MaxJobs == MaxReqs + MaxExtJobs
\* the email of the user record with the id a job names
EmailOf(job) ==
    LET m == {i \in 1..Len(users) : users[i]._id = ObjectId(job.userId)}
    IN FindOne(users, m).email

C17_MeIsTokenOwner ==
    \A r \in Req :
        (reqs[r].kind = "getMe" /\ reqs[r].pc = "done")
        => IF reqs[r].userId = NullStr
           THEN reqs[r].resp = Unauthorized
           ELSE /\ reqs[r].resp.status = 200
                /\ \E i \in issued : \E u \in 1..Len(users) :
                      /\ i.tok = reqs[r].tok /\ users[u]._id = i.uid
                      /\ reqs[r].resp.id = i.uid /\ reqs[r].resp.email = users[u].email

\* getMe has answered the second user's token with the second user, and a
\* made-up token with 401
C17_Witness ==
    \E r1, r2 \in Req :
        /\ reqs[r1].kind = "getMe" /\ reqs[r1].pc = "done"
        /\ reqs[r1].resp.status = 200 /\ reqs[r1].resp.id = SecondUser._id
        /\ reqs[r1].resp.email = SecondUser.email
        /\ reqs[r2].kind = "getMe" /\ reqs[r2].pc = "done"
        /\ reqs[r2].tok = BogusToken /\ reqs[r2].resp = Unauthorized

\* the credential pairs a client can have built the header from
Supplied(hdr) == {c \in Emails \X Passwords : BasicHeader(c[1], c[2]) = hdr}

\* C18: a sign-in that was answered got 200 if and only if a user record has
\* the supplied email and the digest of the whole supplied password; every
\* other answer is 401.
C18_TokenIffCredential ==
    \A r \in Req :
        (reqs[r].kind = "getConnect" /\ reqs[r].pc = "done")
        => /\ reqs[r].resp.status \in {200, 401}
           /\ \A c \in Supplied(reqs[r].hdr) :
                 reqs[r].resp.status = 200
                 <=> \E i \in 1..Len(users) :
                        users[i].email = c[1] /\ users[i].password = Sha1(c[2])

\* C19: a file job in which an id is missing or malformed is never fetched
\* for, starts no thumbnail and never completes: it waits, or it has failed
\* with a raised error.
C19_InvalidFileJobFails ==
    \A j \in FileJobs :
        (~isValidId(jobs[j].fileId) \/ ~isValidId(jobs[j].userId))
        => /\ jobs[j].st \in {"waiting", "failed"}
           /\ ~jobs[j].queried /\ jobs[j].th = NoThumbs
           /\ jobs[j].st = "failed"
              => jobs[j].err \in {"Missing userId", "Missing fileId", "File not found"}

\* a job with a malformed fileId and one with no fileId have both failed
C19_Witness ==
    /\ \E j \in FileJobs :
        /\ jobs[j].fileId = BadStr /\ jobs[j].userId = ToString(1)
        /\ jobs[j].st = "failed" /\ jobs[j].err = "File not found" /\ ~jobs[j].queried
    /\ \E j \in FileJobs :
        /\ jobs[j].fileId = NullStr /\ jobs[j].userId = ToString(1)
        /\ jobs[j].st = "failed" /\ jobs[j].err = "Missing fileId" /\ ~jobs[j].queried

\* C20: in a completed file job every width has finished: its artifact is
\* written, or its error is logged.
C20_ThumbsDoneAtCompletion ==
    \A j \in FileJobs :
        jobs[j].st = "completed"
        => \A i \in 1..Len(Widths) : jobs[j].th[i].pc \in {"done", "failed"}

\* two deliveries of one job: the same queue and the same payload
SameJob(j1, j2) ==
    /\ j1 # j2 /\ jobs[j1].q = jobs[j2].q
    /\ jobs[j1].fileId = jobs[j2].fileId /\ jobs[j1].userId = jobs[j2].userId

\* C21: no step of a consumer writes the users collection or the session
\* store; a thumbnail name has one content, whichever delivery wrote it, and
\* a file job leaves nothing but its three thumbnails; a user job that was
\* completed twice has logged its welcome message twice.
C21_DuplicateDeliverySafe ==
    /\ [][(jobs' # jobs \/ welcomes' # welcomes \/ artifacts' # artifacts)
            => users' = users /\ sess' = sess /\ cmdQ' = cmdQ]_vars
    /\ [](\A a1, a2 \in artifacts : a1.name = a2.name => a1 = a2)
    /\ [](\A a \in artifacts :
            \E k \in 1..Len(Files), i \in 1..Len(Widths) :
                a = [name |-> <<Files[k].localPath, Widths[i]>>, width |-> Widths[i]])
    /\ [](\A j1, j2 \in 1..Len(jobs) :
            (/\ SameJob(j1, j2) /\ jobs[j1].q = "userQueue"
             /\ jobs[j1].st = "completed" /\ jobs[j2].st = "completed")
            => Cardinality({n \in 1..Len(welcomes) : welcomes[n] = EmailOf(jobs[j1])}) >= 2)

\* a file job and its second delivery are both completed with the 500 pixel
\* thumbnail written by each, and there is one such thumbnail
C21_Witness ==
    \E j1, j2 \in FileJobs :
        /\ SameJob(j1, j2) /\ jobs[j2].by = "redelivered"
        /\ jobs[j1].st = "completed" /\ jobs[j2].st = "completed"
        /\ jobs[j1].th[1].pc = "done" /\ jobs[j2].th[1].pc = "done"
        /\ Cardinality({a \in artifacts : a.name = <<jobs[j1].path, 500>>}) = 1

\* C22: the step in which a GET is answered leaves every key of the session
\* store as it was, and a key that stays stored keeps its value and the
\* expiry time it got when it was set.
C22_ResolveReadsOnly ==
    /\ [][(\E r \in Req : Replied(r)) => sess' = sess]_vars
    /\ [][\A k \in Keys :
            (sess[k] # NoKey /\ sess'[k] # NoKey) => sess'[k] = sess[k]]_vars

\* after time has passed, getMe has resolved a token twice, and its key
\* still expires TTL seconds after the sign-in
C22_Witness ==
    \E r1, r2 \in Req : \E i \in issued :
        /\ r1 # r2 /\ now > i.at
        /\ reqs[r1].kind = "getMe" /\ reqs[r1].tok = i.tok
        /\ reqs[r1].userId = ToString(i.uid) /\ reqs[r1].pc = "done"
        /\ reqs[r2].kind = "getMe" /\ reqs[r2].tok = i.tok
        /\ reqs[r2].userId = ToString(i.uid) /\ reqs[r2].pc = "done"
        /\ sess[Key(i.tok)].exp = i.at + TTL
====
